---- MODULE Spec2Model ----
(***************************************************************************)
(* wardgate file tools: file_create.py, file_read.py, file_update.py,      *)
(* file_insert.py and file_patch.py, modelled as one single-shot process   *)
(* acting on a small file system.  Text is a sequence of one-character     *)
(* strings; offsets are 0-based as in the Python source.                   *)
(***************************************************************************)
EXTENDS Integers, Sequences, FiniteSets, TLC

VARIABLES
  tool,         \* which script runs: "create", "read", "update", "insert", "patch"
  args,         \* the parsed command line (sys.argv)
  fs,           \* regular files: canonical path -> content
  dirs,         \* existing directories (canonical paths)
  fs0,          \* the files as they were when the process started
  dirs0,        \* the directories as they were when the process started
  pc,           \* position of the process
  path,         \* main's local `path` (the resolved target), <<>> before safe_path
  new_content,  \* the content handed to the atomic write
  written,      \* number of characters of new_content written so far
  status,       \* exit status, -1 while running
  err,          \* which error was reported ("none" when none)
  out,          \* characters written to standard output by file_read
  count,        \* the number the success message reports (patch, insert)
  diag,         \* <<>> or <<closest match>>: the suggestion printed on stderr
  ops           \* file-system calls made on the target path, after realpath

vars == <<tool, args, fs, dirs, fs0, dirs0, pc, path, new_content, written,
          status, err, out, count, diag, ops>>

-----------------------------------------------------------------------------
(* Characters and Python string primitives                                 *)

NL == "\n"
SP == " "
FF == "\f"

\* re's \s and str.strip(): whitespace characters
IsSpace(c) == c \in {SP, NL, FF}

\* str.splitlines(): line boundaries ("\n", "\f", ...)
LineBreaks == {NL, FF}

\* iteration over a text file: only "\n" ends a line
Newlines == {NL}

Strs(S, n) == UNION {[1..k -> S] : k \in 0..n}

\* s[a:b] for 0 <= a, 0-based half-open, clipped like a Python slice
Slice(s, a, b) ==
  LET hi == IF b > Len(s) THEN Len(s) ELSE b
  IN IF a >= hi THEN <<>> ELSE SubSeq(s, a + 1, hi)

endswith(s, c) == Len(s) > 0 /\ s[Len(s)] = c

RECURSIVE Join(_)
\* "".join(lines)
Join(lines) == IF lines = <<>> THEN <<>> ELSE Head(lines) \o Join(Tail(lines))

RECURSIVE SplitKeep(_, _, _, _)
SplitKeep(s, i, cur, brk) ==
  IF i > Len(s) THEN (IF cur = <<>> THEN <<>> ELSE <<cur>>)
  ELSE IF s[i] \in brk
       THEN <<Append(cur, s[i])>> \o SplitKeep(s, i + 1, <<>>, brk)
       ELSE SplitKeep(s, i + 1, Append(cur, s[i]), brk)

\* content.splitlines(True)
splitlines(s) == SplitKeep(s, 1, <<>>, LineBreaks)

\* the lines `for line in f` yields
FileLines(s) == SplitKeep(s, 1, <<>>, Newlines)

RECURSIVE Collapse(_, _, _)
\* re.sub(r"\s+", " ", s)
Collapse(s, i, inRun) ==
  IF i > Len(s) THEN <<>>
  ELSE IF IsSpace(s[i])
       THEN (IF inRun THEN <<>> ELSE <<SP>>) \o Collapse(s, i + 1, TRUE)
       ELSE <<s[i]>> \o Collapse(s, i + 1, FALSE)

RECURSIVE LStrip(_)
LStrip(s) == IF s # <<>> /\ IsSpace(Head(s)) THEN LStrip(Tail(s)) ELSE s

RECURSIVE RStrip(_)
RStrip(s) ==
  IF s # <<>> /\ IsSpace(s[Len(s)]) THEN RStrip(SubSeq(s, 1, Len(s) - 1)) ELSE s

normalize_ws(s) == RStrip(LStrip(Collapse(s, 1, FALSE)))

\* whether old occurs in c at 0-based offset p
MatchAt(c, old, p) ==
  /\ p + Len(old) <= Len(c)
  /\ \A i \in 1..Len(old) : c[p + i] = old[i]

RECURSIVE FindFrom(_, _, _)
\* c.find(old, p): the least offset >= p where old occurs, or -1
FindFrom(c, old, p) ==
  IF p + Len(old) > Len(c) THEN -1
  ELSE IF MatchAt(c, old, p) THEN p
  ELSE FindFrom(c, old, p + 1)

find(c, old) == FindFrom(c, old, 0)

RECURSIVE CountFrom(_, _, _)
CountFrom(c, old, p) ==
  LET q == FindFrom(c, old, p)
  IN IF q = -1 THEN 0 ELSE 1 + CountFrom(c, old, q + Len(old))

\* c.count(old): non-overlapping occurrences; len(c) + 1 for the empty string
str_count(c, old) == IF old = <<>> THEN Len(c) + 1 ELSE CountFrom(c, old, 0)

RECURSIVE ReplaceFrom(_, _, _, _)
ReplaceFrom(c, old, new, p) ==
  LET q == FindFrom(c, old, p)
  IN IF q = -1 THEN Slice(c, p, Len(c))
     ELSE Slice(c, p, q) \o new \o ReplaceFrom(c, old, new, q + Len(old))

RECURSIVE Interleave(_, _)
Interleave(c, new) ==
  IF c = <<>> THEN new ELSE new \o <<Head(c)>> \o Interleave(Tail(c), new)

\* c.replace(old, new)
str_replace(c, old, new) ==
  IF old = <<>> THEN Interleave(c, new) ELSE ReplaceFrom(c, old, new, 0)

-----------------------------------------------------------------------------
(* file_patch.py: matching                                                 *)

Max(a, b) == IF a >= b THEN a ELSE b
Min(a, b) == IF a <= b THEN a ELSE b

\* old_text.count("\n")
CountNL(s) == Cardinality({i \in 1..Len(s) : s[i] = NL})

\* window = max(old_text.count("\n") + 1, 1)
Window(old_text) == Max(CountNL(old_text) + 1, 1)

RECURSIVE PrefixRun(_, _)
\* matching characters from the start
PrefixRun(a, b) ==
  IF a # <<>> /\ b # <<>> /\ Head(a) = Head(b)
  THEN 1 + PrefixRun(Tail(a), Tail(b)) ELSE 0

RECURSIVE SuffixRun(_, _)
\* matching characters from the end
SuffixRun(a, b) ==
  IF a # <<>> /\ b # <<>> /\ a[Len(a)] = b[Len(b)]
  THEN 1 + SuffixRun(SubSeq(a, 1, Len(a) - 1), SubSeq(b, 1, Len(b) - 1)) ELSE 0

\* _similarity(a, b) as the fraction matched / total
_similarity(a, b) ==
  IF a = <<>> \/ b = <<>> THEN [matched |-> 0, total |-> 1]
  ELSE LET prefix == PrefixRun(a, b)
           suffix == SuffixRun(Slice(a, prefix, Len(a)), Slice(b, prefix, Len(b)))
       IN [matched |-> prefix + suffix, total |-> Max(Len(a), Len(b))]

\* score > best_score, on fractions
ScoreGreater(x, y) == x.matched * y.total > y.matched * x.total

\* a threshold that lets a score of exactly one half through
AboveThresholdOrEqual(score) == 2 * score.matched >= score.total

\* best_score > 0.5
AboveThreshold(score) == 2 * score.matched > score.total

\* chunk.rstrip("\n")
RECURSIVE RStripNL(_)
RStripNL(s) ==
  IF s # <<>> /\ s[Len(s)] = NL THEN RStripNL(SubSeq(s, 1, Len(s) - 1)) ELSE s

NoBest == [score |-> [matched |-> 0, total |-> 1], snippet |-> <<>>, line |-> 0]

RECURSIVE ClosestScan(_, _, _, _, _, _)
\* the two loops of find_closest_match, from window (i, j) on; i, j 0-based
ClosestScan(lines, target, window, i, j, best) ==
  IF i >= Len(lines) THEN best
  ELSE IF j > Min(i + window + 2, Len(lines))
       THEN ClosestScan(lines, target, window, i + 1, i + 2, best)
       ELSE LET chunk == Join(SubSeq(lines, i + 1, j))
                norm_chunk == normalize_ws(chunk)
                score == _similarity(target, norm_chunk)
            IN IF norm_chunk # <<>> /\ ScoreGreater(score, best.score)
               THEN ClosestScan(lines, target, window, i, j + 1,
                      [score |-> score, snippet |-> RStripNL(chunk), line |-> i + 1])
               ELSE ClosestScan(lines, target, window, i, j + 1, best)

\* find_closest_match: <<>> for None, else <<[score, snippet, line]>>
find_closest_match(content, old_text) ==
  LET target == normalize_ws(old_text)
  IN IF target = <<>> THEN <<>>
     ELSE LET best == ClosestScan(splitlines(content), target, Window(old_text),
                                  0, 1, NoBest)
          IN IF AboveThreshold(best.score) THEN <<best>> ELSE <<>>

RECURSIVE LenSum(_, _)
\* sum(len(lines[k]) for k in range(i))
LenSum(lines, i) == IF i = 0 THEN 0 ELSE LenSum(lines, i - 1) + Len(lines[i])

RECURSIVE FirstWindow(_, _, _, _, _)
\* the inner loop of the normalize-ws scan: the first j whose window matches, or 0
FirstWindow(lines, target_norm, i, j, hi) ==
  IF j >= hi THEN 0
  ELSE IF normalize_ws(Join(SubSeq(lines, i + 1, j))) = target_norm THEN j
  ELSE FirstWindow(lines, target_norm, i, j + 1, hi)

RECURSIVE NormScan(_, _, _, _)
\* the outer loop of the normalize-ws scan: the list `matches` of (start, end)
NormScan(lines, target_norm, window, i) ==
  IF i >= Len(lines) THEN <<>>
  ELSE LET j == FirstWindow(lines, target_norm, i, i + 1,
                            Min(i + window + 3, Len(lines) + 1))
           start == LenSum(lines, i)
       IN IF j = 0 THEN NormScan(lines, target_norm, window, i + 1)
          ELSE <<<<start, start + Len(Join(SubSeq(lines, i + 1, j)))>>>>
               \o NormScan(lines, target_norm, window, i + 1)

norm_matches(content, old_text) ==
  NormScan(splitlines(content), normalize_ws(old_text), Window(old_text), 0)

RECURSIVE ApplyReversed(_, _, _)
\* for start, end in reversed(matches): splice new_text in
ApplyReversed(c, matches, new_text) ==
  IF matches = <<>> THEN c
  ELSE LET m == matches[Len(matches)]
       IN ApplyReversed(Slice(c, 0, m[1]) \o new_text \o Slice(c, m[2], Len(c)),
                        SubSeq(matches, 1, Len(matches) - 1), new_text)

\* matches = matches[:1] unless --all
KeptMatches(matches, replace_all) ==
  IF replace_all THEN matches ELSE Slice(matches, 0, 1)

\* exact mode without --all: content[:pos] + new_text + content[pos + len(old_text):]
ReplaceFirst(content, old_text, new_text) ==
  LET pos == find(content, old_text)
  IN Slice(content, 0, pos) \o new_text \o Slice(content, pos + Len(old_text), Len(content))

\* a patch that replaces every occurrence whether or not --all was given
PatchContentIgnoresAll(content, old_text, new_text, replace_all, norm_ws) ==
  IF norm_ws
  THEN ApplyReversed(content, KeptMatches(norm_matches(content, old_text), replace_all),
                     new_text)
  ELSE str_replace(content, old_text, new_text)

\* the content file_patch writes; called only when there is a match
PatchContent(content, old_text, new_text, replace_all, norm_ws) ==
  IF norm_ws
  THEN ApplyReversed(content, KeptMatches(norm_matches(content, old_text), replace_all),
                     new_text)
  ELSE IF replace_all THEN str_replace(content, old_text, new_text)
  ELSE ReplaceFirst(content, old_text, new_text)

\* the count the success message reports
PatchCount(content, old_text, replace_all, norm_ws) ==
  IF norm_ws THEN Len(KeptMatches(norm_matches(content, old_text), replace_all))
  ELSE IF replace_all THEN str_count(content, old_text) ELSE 1

\* the zero-match check made in exact mode only
PatchNoMatchExactOnly(content, old_text, norm_ws) ==
  IF norm_ws THEN FALSE ELSE str_count(content, old_text) = 0

\* whether file_patch finds no match and reports it
PatchNoMatch(content, old_text, norm_ws) ==
  IF norm_ws THEN norm_matches(content, old_text) = <<>>
  ELSE str_count(content, old_text) = 0

-----------------------------------------------------------------------------
(* file_insert.py: insertion point and new lines                           *)

RECURSIVE LastLineContaining(_, _, _)
\* a scan that keeps the last line containing pat instead of stopping at the first
LastLineContaining(lines, pat, j) ==
  IF j >= Len(lines) THEN -1
  ELSE LET later == LastLineContaining(lines, pat, j + 1)
       IN IF later # -1 THEN later
          ELSE IF find(lines[j + 1], pat) # -1 THEN j ELSE -1

RECURSIVE FirstLineContaining(_, _, _)
\* for j, line in enumerate(lines): if pat in line: idx = j; break   (-1 for None)
FirstLineContaining(lines, pat, j) ==
  IF j >= Len(lines) THEN -1
  ELSE IF find(lines[j + 1], pat) # -1 THEN j
  ELSE FirstLineContaining(lines, pat, j + 1)

\* the chain with --after-match inserting at the matched line, not after it
InsertPointAtMatch(lines, a) ==
  IF a.after_line # <<>>
  THEN LET n == a.after_line[1]
       IN IF n < 0 \/ n > Len(lines) THEN [err |-> "range", insert_at |-> 0]
          ELSE [err |-> "none", insert_at |-> n]
  ELSE IF a.after_match # <<>>
  THEN LET idx == FirstLineContaining(lines, a.after_match[1], 0)
       IN IF idx = -1 THEN [err |-> "nomatch", insert_at |-> 0]
          ELSE [err |-> "none", insert_at |-> idx]
  ELSE IF a.before_match # <<>>
  THEN LET idx == FirstLineContaining(lines, a.before_match[1], 0)
       IN IF idx = -1 THEN [err |-> "nomatch", insert_at |-> 0]
          ELSE [err |-> "none", insert_at |-> idx]
  ELSE [err |-> "none", insert_at |-> Len(lines)]

\* the if/elif chain that sets insert_at; err is "none", "range" or "nomatch"
InsertPoint(lines, a) ==
  IF a.after_line # <<>>
  THEN LET n == a.after_line[1]
       IN IF n < 0 \/ n > Len(lines) THEN [err |-> "range", insert_at |-> 0]
          ELSE [err |-> "none", insert_at |-> n]
  ELSE IF a.after_match # <<>>
  THEN LET idx == FirstLineContaining(lines, a.after_match[1], 0)
       IN IF idx = -1 THEN [err |-> "nomatch", insert_at |-> 0]
          ELSE [err |-> "none", insert_at |-> idx + 1]
  ELSE IF a.before_match # <<>>
  THEN LET idx == FirstLineContaining(lines, a.before_match[1], 0)
       IN IF idx = -1 THEN [err |-> "nomatch", insert_at |-> 0]
          ELSE [err |-> "none", insert_at |-> idx]
  ELSE [err |-> "none", insert_at |-> Len(lines)]

\* insert_text = text if text.endswith("\n") else text + "\n"
InsertText(text) == IF endswith(text, NL) THEN text ELSE text \o <<NL>>

\* the previous line left as it is
KeepPrevLine(lines, insert_at) == lines

\* if insert_at > 0 and lines and not lines[insert_at - 1].endswith("\n"): += "\n"
FixPrevLine(lines, insert_at) ==
  IF insert_at > 0 /\ lines # <<>> /\ ~endswith(lines[insert_at], NL)
  THEN [lines EXCEPT ![insert_at] = @ \o <<NL>>]
  ELSE lines

\* insert_lines = insert_text.splitlines(True)
InsertLines(text) == splitlines(InsertText(text))

\* new_lines = lines[:insert_at] + insert_lines + lines[insert_at:]
NewLines(lines, insert_at, text) ==
  LET fixed == FixPrevLine(lines, insert_at)
  IN SubSeq(fixed, 1, insert_at) \o InsertLines(text)
     \o SubSeq(fixed, insert_at + 1, Len(fixed))

\* new_content of file_insert for an accepted insertion point
InsertContent(content, insert_at, text) ==
  Join(NewLines(splitlines(content), insert_at, text))

-----------------------------------------------------------------------------
(* file_read.py: numbered rendering                                        *)

LineNoWidth == 6

DigitChar == <<"0", "1", "2", "3", "4", "5", "6", "7", "8", "9">>

RECURSIVE Digits(_)
Digits(n) == IF n < 10 THEN <<DigitChar[n + 1]>>
             ELSE Digits(n \div 10) \o <<DigitChar[(n % 10) + 1]>>

RECURSIVE Spaces(_)
Spaces(n) == IF n <= 0 THEN <<>> ELSE <<SP>> \o Spaces(n - 1)

\* f"{i:6}": right-aligned in 6 columns, wider when the number needs it
FormatLineNo(i) == Spaces(LineNoWidth - Len(Digits(i))) \o Digits(i)

RECURSIVE NumberedRows(_, _)
\* for i, line in enumerate(f, 1): write(f"{i:6} | {line}"), from line i on
NumberedRows(lines, i) ==
  IF i > Len(lines) THEN <<>>
  ELSE FormatLineNo(i) \o <<SP, "|", SP>> \o lines[i] \o NumberedRows(lines, i + 1)

\* the numbered branch of file_read: what reaches stdout, and whether the
\* statement after the loop raises (its `line` is unbound when the loop never ran)
ReadNumbered(content) ==
  LET lines == FileLines(content)
      rows == NumberedRows(lines, 1)
  IN IF lines = <<>> THEN [out |-> rows, raised |-> TRUE]
     ELSE IF ~endswith(lines[Len(lines)], NL)
          THEN [out |-> rows \o <<NL>>, raised |-> FALSE]
          ELSE [out |-> rows, raised |-> FALSE]

-----------------------------------------------------------------------------
(* safe_path: realpath and the working-directory check                     *)

\* os.getcwd(), already canonical: /w
Cwd == <<"w">>

\* symbolic links of the file system: /w/l -> /w2/f, /w/i -> /w/f
Symlinks == (<<"w", "l">> :> <<"w2", "f">>) @@ (<<"w", "i">> :> <<"w", "f">>)

RECURSIVE Walk(_, _)
\* os.path.realpath on components: "." and ".." folded, symlinks followed
Walk(parts, acc) ==
  IF parts = <<>> THEN acc
  ELSE LET c == Head(parts)
       IN IF c = "." THEN Walk(Tail(parts), acc)
          ELSE IF c = ".."
               THEN Walk(Tail(parts),
                         IF acc = <<>> THEN acc ELSE SubSeq(acc, 1, Len(acc) - 1))
          ELSE IF Append(acc, c) \in DOMAIN Symlinks
               THEN Walk(Tail(parts), Symlinks[Append(acc, c)])
          ELSE Walk(Tail(parts), Append(acc, c))

realpath(p) == Walk(p.parts, IF p.abs THEN <<>> ELSE Cwd)

\* the characters of a path component
NameChars(c) == IF c = "w2" THEN <<"w", "2">> ELSE <<c>>

RECURSIVE PathStr(_)
\* the absolute path string of a component list
PathStr(comps) ==
  IF comps = <<>> THEN <<>>
  ELSE <<"/">> \o NameChars(Head(comps)) \o PathStr(Tail(comps))

\* the string realpath returns ("/" for the root)
ResolvedStr(comps) == IF comps = <<>> THEN <<"/">> ELSE PathStr(comps)

startswith(s, pre) == Len(pre) <= Len(s) /\ SubSeq(s, 1, Len(pre)) = pre

\* the prefix test without the separator
path_ok_no_sep(resolved) ==
  LET r == ResolvedStr(resolved)
      cwd == ResolvedStr(realpath([abs |-> FALSE, parts |-> <<>>]))
  IN startswith(r, cwd) \/ r = cwd

\* safe_path's test: resolved.startswith(cwd + os.sep) or resolved == cwd
path_ok(resolved) ==
  LET r == ResolvedStr(resolved)
      cwd == ResolvedStr(realpath([abs |-> FALSE, parts |-> <<>>]))
  IN startswith(r, cwd \o <<"/">>) \/ r = cwd

\* os.path.dirname
dirname(p) == SubSeq(p, 1, Len(p) - 1)

\* the name tempfile.mkstemp(dir=parent, prefix=".wardgate_tmp_") returns
TmpPath(p) == Append(dirname(p), ".wardgate_tmp_")

isfile(files, p) == p \in DOMAIN files
exists(files, ds, p) == p \in DOMAIN files \/ p \in ds

\* os.makedirs(parent, exist_ok=True): parent and its missing ancestors
makedirs(ds, parent) == ds \cup {SubSeq(parent, 1, k) : k \in 0..Len(parent)}

WriteFile(files, p, c) == (p :> c) @@ files
RemoveFile(files, p) == [q \in DOMAIN files \ {p} |-> files[q]]

-----------------------------------------------------------------------------
(* The process                                                             *)

Target == <<"w", "f">>

\* a write that goes to the target itself instead of the temporary file
WriteDestInPlace(tmp, target) == target

\* the file each atomic write sends f.write to: the temporary file
WriteDest(tmp, target) == tmp

\* leaving through sys.exit(1) or an uncaught exception, before any write
Fail(e, p, o) ==
  /\ pc' = "exit" /\ status' = 1 /\ err' = e /\ path' = p /\ ops' = o
  /\ UNCHANGED <<fs, dirs, new_content, written, out, count, diag>>

\* handing new content to the atomic write
ToWrite(p, o, c) ==
  /\ pc' = "mkstemp" /\ path' = p /\ ops' = o /\ new_content' = c
  /\ UNCHANGED <<fs, dirs, written, status, err, out, count, diag>>

\* file_create.py main
CreateMain ==
  /\ pc = "start" /\ tool = "create"
  /\ LET resolved == realpath(args.p)
         parent == dirname(resolved)
     IN IF args.npos # 2 THEN Fail("usage", <<>>, {})
        ELSE IF ~path_ok(resolved) THEN Fail("path", <<>>, {})
        ELSE IF exists(fs, dirs, resolved) THEN Fail("exists", resolved, {"exists"})
        ELSE /\ dirs' = IF parent \notin dirs THEN makedirs(dirs, parent) ELSE dirs
             /\ fs' = WriteFile(fs, resolved, args.a1)
             /\ ops' = {"exists", "isdir", "open_w", "write"}
                        \cup (IF parent \notin dirs THEN {"makedirs"} ELSE {})
             /\ pc' = "exit" /\ status' = 0 /\ path' = resolved
             /\ UNCHANGED <<new_content, written, err, out, count, diag>>
  /\ UNCHANGED <<tool, args, fs0, dirs0>>

\* file_read.py main
ReadMain ==
  /\ pc = "start" /\ tool = "read"
  /\ LET resolved == realpath(args.p)
     IN IF args.npos # 1 THEN Fail("usage", <<>>, {})
        ELSE IF ~path_ok(resolved) THEN Fail("path", <<>>, {})
        ELSE IF ~isfile(fs, resolved) THEN Fail("missing", resolved, {"isfile"})
        ELSE /\ path' = resolved /\ ops' = {"isfile", "read"} /\ pc' = "exit"
             /\ IF args.raw
                THEN out' = fs[resolved] /\ status' = 0 /\ err' = err
                ELSE LET r == ReadNumbered(fs[resolved])
                     IN /\ out' = r.out
                        /\ status' = IF r.raised THEN 1 ELSE 0
                        /\ err' = IF r.raised THEN "exception" ELSE err
             /\ UNCHANGED <<fs, dirs, new_content, written, count, diag>>
  /\ UNCHANGED <<tool, args, fs0, dirs0>>

\* file_update.py main, up to the atomic write
UpdateMain ==
  /\ pc = "start" /\ tool = "update"
  /\ LET resolved == realpath(args.p)
     IN IF args.npos # 2 THEN Fail("usage", <<>>, {})
        ELSE IF ~path_ok(resolved) THEN Fail("path", <<>>, {})
        ELSE IF ~isfile(fs, resolved) THEN Fail("missing", resolved, {"isfile"})
        ELSE ToWrite(resolved, {"isfile"}, args.a1)
  /\ UNCHANGED <<tool, args, fs0, dirs0>>

\* file_insert.py main, up to the atomic write
InsertMain ==
  /\ pc = "start" /\ tool = "insert"
  /\ LET resolved == realpath(args.p)
     IN IF ~args.line_arg_ok THEN Fail("exception", <<>>, {})
        ELSE IF args.npos # 2 THEN Fail("usage", <<>>, {})
        ELSE IF ~path_ok(resolved) THEN Fail("path", <<>>, {})
        ELSE IF ~isfile(fs, resolved) THEN Fail("missing", resolved, {"isfile"})
        ELSE LET content == fs[resolved]
                 ip == InsertPoint(splitlines(content), args)
             IN IF ip.err # "none" THEN Fail(ip.err, resolved, {"isfile", "read"})
                ELSE ToWrite(resolved, {"isfile", "read"},
                             InsertContent(content, ip.insert_at, args.a1))
  /\ UNCHANGED <<tool, args, fs0, dirs0>>

\* file_patch.py main, up to the atomic write
PatchMain ==
  /\ pc = "start" /\ tool = "patch"
  /\ LET resolved == realpath(args.p)
     IN IF args.npos # 3 THEN Fail("usage", <<>>, {})
        ELSE IF ~path_ok(resolved) THEN Fail("path", <<>>, {})
        ELSE IF ~isfile(fs, resolved) THEN Fail("missing", resolved, {"isfile"})
        ELSE LET content == fs[resolved]
             IN IF PatchNoMatch(content, args.a1, args.norm_ws)
                THEN \* _report_no_match, then sys.exit(1)
                     /\ diag' = find_closest_match(content, args.a1)
                     /\ pc' = "exit" /\ status' = 1 /\ err' = "nomatch"
                     /\ path' = resolved /\ ops' = {"isfile", "read"}
                     /\ UNCHANGED <<fs, dirs, new_content, written, out, count>>
                ELSE ToWrite(resolved, {"isfile", "read"},
                             PatchContent(content, args.a1, args.a2,
                                          args.all, args.norm_ws))
  /\ UNCHANGED <<tool, args, fs0, dirs0>>

\* tempfile.mkstemp creates an empty file beside the target
Mkstemp ==
  /\ pc = "mkstemp"
  /\ fs' = WriteFile(fs, TmpPath(path), <<>>)
  /\ ops' = ops \cup {"mkstemp"}
  /\ written' = 0
  /\ pc' = "write"
  /\ UNCHANGED <<tool, args, dirs, fs0, dirs0, path, new_content, status, err,
                 out, count, diag>>

\* mkstemp raises, outside the try: the exception ends the process
MkstempFail ==
  /\ pc = "mkstemp"
  /\ pc' = "exit" /\ status' = 1 /\ err' = "io"
  /\ UNCHANGED <<tool, args, fs, dirs, fs0, dirs0, path, new_content, written,
                 out, count, diag, ops>>

\* f.write(content) reaching the file, one character at a time
WriteChunk ==
  /\ pc = "write" /\ written < Len(new_content)
  /\ fs' = WriteFile(fs, WriteDest(TmpPath(path), path),
                     SubSeq(new_content, 1, written + 1))
  /\ written' = written + 1
  /\ ops' = ops \cup {"write"}
  /\ UNCHANGED <<tool, args, dirs, fs0, dirs0, pc, path, new_content, status, err,
                 out, count, diag>>

\* the with block closes the file once everything is written
CloseTmp ==
  /\ pc = "write" /\ written = Len(new_content)
  /\ pc' = "replace"
  /\ UNCHANGED <<tool, args, fs, dirs, fs0, dirs0, path, new_content, written,
                 status, err, out, count, diag, ops>>

\* the write (or the close) raises: control goes to the except clause
WriteFail ==
  /\ pc = "write"
  /\ pc' = "cleanup"
  /\ UNCHANGED <<tool, args, fs, dirs, fs0, dirs0, path, new_content, written,
                 status, err, out, count, diag, ops>>

\* os.replace(tmp, path)
Replace ==
  /\ pc = "replace"
  /\ fs' = RemoveFile(WriteFile(fs, path, fs[TmpPath(path)]), TmpPath(path))
  /\ ops' = ops \cup {"replace"}
  /\ pc' = "report"
  /\ UNCHANGED <<tool, args, dirs, fs0, dirs0, path, new_content, written, status,
                 err, out, count, diag>>

\* os.replace raises: control goes to the except clause
ReplaceFail ==
  /\ pc = "replace"
  /\ pc' = "cleanup"
  /\ UNCHANGED <<tool, args, fs, dirs, fs0, dirs0, path, new_content, written,
                 status, err, out, count, diag, ops>>

\* except Exception: os.unlink(tmp); raise
Cleanup ==
  /\ pc = "cleanup"
  /\ fs' = RemoveFile(fs, TmpPath(path))
  /\ ops' = ops \cup {"unlink"}
  /\ pc' = "exit" /\ status' = 1 /\ err' = "io"
  /\ UNCHANGED <<tool, args, dirs, fs0, dirs0, path, new_content, written, out,
                 count, diag>>

\* the number in the success message
ReportCount ==
  LET content == fs0[path]
  IN IF tool = "patch"
     THEN PatchCount(content, args.a1, args.all, args.norm_ws)
     ELSE IF tool = "insert" THEN Len(InsertLines(args.a1))
     ELSE 0

\* the success message, then the end of main
Report ==
  /\ pc = "report"
  /\ count' = ReportCount
  /\ pc' = "exit" /\ status' = 0
  /\ UNCHANGED <<tool, args, fs, dirs, fs0, dirs0, path, new_content, written,
                 err, out, diag, ops>>

\* the environment kills the process
Kill ==
  /\ pc \notin {"exit", "killed"}
  /\ pc' = "killed"
  /\ UNCHANGED <<tool, args, fs, dirs, fs0, dirs0, path, new_content, written,
                 status, err, out, count, diag, ops>>

-----------------------------------------------------------------------------
(* Command lines and initial file systems                                  *)

MaxMain == 3      \* Spec: longest file content
MaxExact == 6     \* SpecPatch: longest file content
MaxOld == 3       \* SpecPatch: longest old text
MaxNorm == 4      \* SpecNorm: longest file content
MaxNormOld == 2   \* SpecNorm: longest old text
MaxIns == 3       \* SpecInsert: longest file content
MaxRead == 5      \* SpecRead: longest file content

Tools == {"create", "read", "update", "insert", "patch"}

Rel(parts) == [abs |-> FALSE, parts |-> parts]
Abs(parts) == [abs |-> TRUE, parts |-> parts]

\* path arguments: inside the working directory (a file, a missing file, a file
\* under a missing directory, a directory, the directory itself, a link to a
\* file inside) and outside it (a sibling whose name extends the working
\* directory's, the root, a link to a file outside)
PathArgs ==
  { Rel(<<"f">>), Rel(<<"g">>), Rel(<<"n", "g">>), Rel(<<"d">>), Rel(<<".">>),
    Rel(<<"d", "..", "f">>), Abs(<<"w", "f">>), Rel(<<"i">>),
    Rel(<<"..", "w2", "f">>), Abs(<<"w2", "f">>), Rel(<<"..">>), Rel(<<"l">>),
    Rel(<<"..", "w2", "g">>) }

Dirs0 == {<<>>, <<"w">>, <<"w", "d">>, <<"w2">>}

Files0(c) == (Target :> c) @@ (<<"w2", "f">> :> <<"o">>)

\* a well-formed command line on the file f, without flags
DefaultArgs(n, a1, a2) ==
  [npos |-> n, p |-> Rel(<<"f">>), a1 |-> a1, a2 |-> a2, all |-> FALSE,
   norm_ws |-> FALSE, raw |-> FALSE, after_line |-> <<>>, line_arg_ok |-> TRUE,
   after_match |-> <<>>, before_match |-> <<>>, append_mode |-> FALSE]

BaseArgs(t) ==
  CASE t = "create" -> DefaultArgs(2, <<"x">>, <<>>)
    [] t = "read"   -> DefaultArgs(1, <<>>, <<>>)
    [] t = "update" -> DefaultArgs(2, <<"x", "y">>, <<>>)
    [] t = "insert" -> DefaultArgs(2, <<"X">>, <<>>)
    [] t = "patch"  -> DefaultArgs(3, <<"a">>, <<"X">>)

Opt(S) == {<<>>} \cup {<<x>> : x \in S}

VariantArgs(t) ==
  CASE t = "create" -> {BaseArgs(t)}
    [] t = "read"   -> {[BaseArgs(t) EXCEPT !.raw = r] : r \in BOOLEAN}
    [] t = "update" -> {[BaseArgs(t) EXCEPT !.a1 = c] : c \in {<<>>, <<"x", "y">>}}
    [] t = "insert" ->
         {[BaseArgs(t) EXCEPT !.after_line = al, !.after_match = am,
                              !.before_match = bm, !.append_mode = ap,
                              !.line_arg_ok = ok] :
            al \in Opt(-1..(MaxMain + 1)), am \in Opt({<<"a">>, <<"b">>}),
            bm \in Opt({<<"a">>, <<"b">>}), ap \in BOOLEAN, ok \in BOOLEAN}
    [] t = "patch"  ->
         {[BaseArgs(t) EXCEPT !.a1 = o, !.all = al, !.norm_ws = nw] :
            o \in Strs({"a", SP}, MaxMain + 1), al \in BOOLEAN, nw \in BOOLEAN}

MainArgs(t) ==
  VariantArgs(t) \cup
  {[BaseArgs(t) EXCEPT !.p = q, !.npos = n] :
     q \in PathArgs, n \in {BaseArgs(t).npos, BaseArgs(t).npos + 1}}

\* the state of a process that has not run yet
Fresh(t, a, files) ==
  /\ tool = t /\ args = a /\ fs = files /\ fs0 = files
  /\ dirs = Dirs0 /\ dirs0 = Dirs0
  /\ pc = "start" /\ path = <<>> /\ new_content = <<>> /\ written = 0
  /\ status = -1 /\ err = "none" /\ out = <<>> /\ count = 0 /\ diag = <<>>
  /\ ops = {}

Init ==
  \E t \in Tools : \E a \in MainArgs(t) : \E c \in Strs({"a", NL}, MaxMain) :
    Fresh(t, a, Files0(c))

Next ==
  \/ CreateMain \/ ReadMain \/ UpdateMain \/ InsertMain \/ PatchMain
  \/ Mkstemp \/ WriteChunk \/ CloseTmp \/ Replace \/ Report
  \/ MkstempFail \/ WriteFail \/ ReplaceFail \/ Cleanup
  \/ Kill

\* every tool, every failure of the environment
Spec == Init /\ [][Next]_vars

\* file_patch in exact mode
ExampleExact == <<"a", "b", "a", "b", "a", "b">>
NewTexts == {<<>>, <<"B">>, <<"a", "b">>}

InitPatch ==
  \E c \in Strs({"a", "b"}, MaxExact) \cup {ExampleExact} :
  \E o \in Strs({"a", "b"}, MaxOld) : \E n \in NewTexts : \E al \in BOOLEAN :
    Fresh("patch", [DefaultArgs(3, o, n) EXCEPT !.all = al], Files0(c))

NextPatch == PatchMain \/ Mkstemp \/ WriteChunk \/ CloseTmp \/ Replace \/ Report

SpecPatch == InitPatch /\ [][NextPatch]_vars

\* file_patch on text with whitespace, both modes
InitNorm ==
  \E c \in Strs({"a", SP, NL}, MaxNorm) :
  \E o \in Strs({"a", SP, NL}, MaxNormOld) :
  \E al \in BOOLEAN : \E nw \in BOOLEAN :
    Fresh("patch", [DefaultArgs(3, o, <<"X">>) EXCEPT !.all = al, !.norm_ws = nw],
          Files0(c))

SpecNorm == InitNorm /\ [][NextPatch]_vars

\* file_insert with at most one positioning flag
ExampleLines == <<"a", NL, "b", NL, "c", NL>>
InsTexts == {<<>>, <<"X">>, <<"X", NL>>, <<"X", NL, NL>>, <<NL>>, <<"X", NL, "Y">>,
             <<"X", FF>>}
InsPats == {<<>>, <<"a">>, <<"b">>, <<"a", "b">>}

InsFlags(n) ==
  {[after_line |-> <<k>>, after_match |-> <<>>, before_match |-> <<>>] :
     k \in -1..(n + 1)} \cup
  {[after_line |-> <<>>, after_match |-> <<q>>, before_match |-> <<>>] :
     q \in InsPats} \cup
  {[after_line |-> <<>>, after_match |-> <<>>, before_match |-> <<q>>] :
     q \in InsPats} \cup
  {[after_line |-> <<>>, after_match |-> <<>>, before_match |-> <<>>]}

InitInsert ==
  \E c \in Strs({"a", "b", NL, FF}, MaxIns) \cup {ExampleLines} :
  \E x \in InsTexts : \E f \in InsFlags(Len(splitlines(c))) :
    Fresh("insert",
          [DefaultArgs(2, x, <<>>) EXCEPT !.after_line = f.after_line,
                                          !.after_match = f.after_match,
                                          !.before_match = f.before_match],
          Files0(c))

NextInsert == InsertMain \/ Mkstemp \/ WriteChunk \/ CloseTmp \/ Replace \/ Report

SpecInsert == InitInsert /\ [][NextInsert]_vars

\* file_read
InitRead ==
  \E c \in Strs({"a", NL, FF}, MaxRead) : \E r \in BOOLEAN :
    Fresh("read", [DefaultArgs(1, <<>>, <<>>) EXCEPT !.raw = r], Files0(c))

NextRead == ReadMain

SpecRead == InitRead /\ [][NextRead]_vars

-----------------------------------------------------------------------------
(* Properties                                                              *)

Mutating == {"update", "insert", "patch"}

\* the number of positional arguments each tool demands
Required(t) ==
  CASE t = "read" -> 1 [] t = "patch" -> 3 [] OTHER -> 2

UsageError == args.npos # Required(tool) \/ ~args.line_arg_ok

\* the canonical path is not the working directory and does not start with the
\* working directory followed by the separator
Outside ==
  LET r == ResolvedStr(realpath(args.p))
      w == ResolvedStr(Cwd)
  IN r # w /\ ~(Len(r) > Len(w) /\ \A i \in 1..(Len(w) + 1) : r[i] = (w \o <<"/">>)[i])

C2_OutsideRejected ==
  Outside =>
    /\ ops = {} /\ fs = fs0 /\ dirs = dirs0
    /\ pc \in {"start", "exit", "killed"}
    /\ (pc = "exit" /\ ~UsageError) => (err = "path" /\ status = 1)
    /\ pc = "exit" => status = 1

\* C2 witness: a rejected sibling directory whose name extends the working
\* directory's name
C2_SiblingRejected ==
  /\ tool = "create" /\ args.p = Rel(<<"..", "w2", "g">>)
  /\ pc = "exit" /\ err = "path" /\ status = 1

\* the lines of the file the tool was pointed at, when it is a file
Content0 == fs0[realpath(args.p)]
Lines0 == splitlines(Content0)

Occurs(c, old) == \E q \in 0..Len(c) : MatchAt(c, old, q)

\* a window of lines the normalize-ws scan looks at equals the old text up
\* to whitespace
NormOccurs(c, old) ==
  LET L == splitlines(c)
  IN \E i \in 0..(Len(L) - 1) : \E j \in (i + 1)..Len(L) :
       /\ j <= i + Window(old) + 2
       /\ normalize_ws(Join(SubSeq(L, i + 1, j))) = normalize_ws(old)

\* the precondition failures the tools report
Precondition ==
  LET r == realpath(args.p)
  IN \/ tool = "create" /\ (r \in DOMAIN fs0 \/ r \in dirs0)
     \/ tool # "create" /\ r \notin DOMAIN fs0
     \/ /\ tool = "insert" /\ r \in DOMAIN fs0
        /\ \/ /\ args.after_line # <<>>
              /\ (args.after_line[1] < 0 \/ args.after_line[1] > Len(Lines0))
           \/ /\ args.after_line = <<>> /\ args.after_match # <<>>
              /\ \A i \in 1..Len(Lines0) : ~Occurs(Lines0[i], args.after_match[1])
           \/ /\ args.after_line = <<>> /\ args.after_match = <<>>
              /\ args.before_match # <<>>
              /\ \A i \in 1..Len(Lines0) : ~Occurs(Lines0[i], args.before_match[1])
     \/ /\ tool = "patch" /\ r \in DOMAIN fs0
        /\ IF args.norm_ws THEN ~NormOccurs(Content0, args.a1)
                           ELSE ~Occurs(Content0, args.a1)

\* C8: a usage error, a path violation, create on an existing path, a missing
\* file, an insert line out of range, an insert substring in no line and a
\* patch without match end with status 1, change no file or directory, create
\* no temporary file and compute no replacement, diagnostic or not; and every
\* reported error exits with status 1
C8_FailuresMutateNothing ==
  /\ (UsageError \/ Outside \/ Precondition) =>
       /\ fs = fs0 /\ dirs = dirs0
       /\ ops \cap {"mkstemp", "write", "replace", "makedirs", "open_w"} = {}
       /\ new_content = <<>>
       /\ pc \in {"start", "exit", "killed"}
       /\ pc = "exit" => (status = 1 /\ err # "none")
  /\ err # "none" => status = 1

\* C8 witness: a patch without match printed its closest-match suggestion
C8_NoMatchWithSuggestion ==
  /\ tool = "patch" /\ pc = "exit" /\ err = "nomatch" /\ diag # <<>>
  /\ status = 1 /\ fs = fs0

RECURSIVE ScanReplace(_, _, _, _)
\* c from offset q on, read left to right: an occurrence of old becomes new and
\* is skipped, any other character is copied
ScanReplace(c, old, new, q) ==
  LET here == IF q < Len(c) THEN <<c[q + 1]>> ELSE <<>>
  IN IF q > Len(c) THEN <<>>
     ELSE IF MatchAt(c, old, q)
          THEN IF old = <<>> THEN new \o here \o ScanReplace(c, old, new, q + 1)
               ELSE new \o ScanReplace(c, old, new, q + Len(old))
          ELSE here \o ScanReplace(c, old, new, q + 1)

RECURSIVE ScanCount(_, _, _)
\* the number of occurrences that scan replaces
ScanCount(c, old, q) ==
  IF q > Len(c) THEN 0
  ELSE IF MatchAt(c, old, q)
       THEN 1 + ScanCount(c, old, IF old = <<>> THEN q + 1 ELSE q + Len(old))
       ELSE ScanCount(c, old, q + 1)

Leftmost(c, old) ==
  CHOOSE q \in 0..Len(c) :
    MatchAt(c, old, q) /\ \A r \in 0..(q - 1) : ~MatchAt(c, old, r)

\* C3: exact mode on a file containing the old text: without --all only the
\* leftmost occurrence is replaced and the rest is unchanged; with --all every
\* left-to-right non-overlapping occurrence is replaced and the reported count
\* is their number; "ababab" with b -> B gives "aBabab" and "aBaBaB"
C3_ExactReplace ==
  (tool = "patch" /\ ~args.norm_ws /\ Occurs(Content0, args.a1)) =>
    LET c == Content0
        old == args.a1
        new == args.a2
        q == Leftmost(c, old)
    IN /\ err = "none"
       /\ pc = "exit" =>
            /\ status = 0
            /\ IF args.all
               THEN /\ fs[Target] = ScanReplace(c, old, new, 0)
                    /\ count = ScanCount(c, old, 0)
               ELSE /\ fs[Target] = Slice(c, 0, q) \o new \o Slice(c, q + Len(old), Len(c))
                    /\ count = 1
            /\ (c = ExampleExact /\ old = <<"b">> /\ new = <<"B">>) =>
                 fs[Target] = IF args.all THEN <<"a", "B", "a", "B", "a", "B">>
                              ELSE <<"a", "B", "a", "b", "a", "b">>

\* C3 witness: "ababab", b -> B, --all
C3_ExampleAll ==
  /\ pc = "exit" /\ status = 0 /\ args.all /\ ~args.norm_ws
  /\ fs0[Target] = ExampleExact /\ args.a1 = <<"b">> /\ args.a2 = <<"B">>
  /\ fs[Target] = <<"a", "B", "a", "B", "a", "B">> /\ count = 3

RECURSIVE SpliceForward(_, _, _, _, _)
\* c with the spans ms[k..] replaced by new, from offset pos on
SpliceForward(c, ms, k, pos, new) ==
  IF k > Len(ms) THEN Slice(c, pos, Len(c))
  ELSE Slice(c, pos, ms[k][1]) \o new \o SpliceForward(c, ms, k + 1, ms[k][2], new)

Disjoint(ms) == \A i \in 1..Len(ms) : \A j \in (i + 1)..Len(ms) : ms[i][2] <= ms[j][1]

\* C4: normalize-ws mode with --all: the spans the scan found never overlap,
\* and the written content is the original with exactly those spans replaced by
\* the new text, everything outside them kept
C4_NormAllSplicesSpans ==
  (tool = "patch" /\ args.norm_ws /\ args.all /\ pc = "exit" /\ status = 0) =>
    LET ms == norm_matches(Content0, args.a1)
    IN /\ Disjoint(ms)
       /\ fs[Target] = SpliceForward(Content0, ms, 1, 0, args.a2)
       /\ count = Len(ms)

\* the length of the common prefix of a and b
CommonPrefix(a, b) ==
  CHOOSE k \in 0..Min(Len(a), Len(b)) :
    /\ \A i \in 1..k : a[i] = b[i]
    /\ k = Min(Len(a), Len(b)) \/ a[k + 1] # b[k + 1]

\* the length of the common suffix of a and b that stays clear of the first pre
\* characters of both
CommonSuffix(a, b, pre) ==
  CHOOSE k \in 0..(Min(Len(a), Len(b)) - pre) :
    /\ \A i \in 1..k : a[Len(a) - i + 1] = b[Len(b) - i + 1]
    /\ k = Min(Len(a), Len(b)) - pre \/ a[Len(a) - k] # b[Len(b) - k]

Matched(a, b) == CommonPrefix(a, b) + CommonSuffix(a, b, CommonPrefix(a, b))

\* similarity of at least one half, and of more than one half
HalfSimilar(a, b) ==
  a # <<>> /\ b # <<>> /\ 2 * Matched(a, b) >= Max(Len(a), Len(b))
MoreThanHalfSimilar(a, b) ==
  a # <<>> /\ b # <<>> /\ 2 * Matched(a, b) > Max(Len(a), Len(b))

\* the candidate windows of the closest-match search, as normalized chunks
Candidates(c, old) ==
  LET L == splitlines(c)
  IN {normalize_ws(Join(SubSeq(L, i + 1, j))) :
        <<i, j>> \in {w \in (0..Len(L)) \X (1..Len(L)) :
                       w[1] < w[2] /\ w[2] <= w[1] + Window(old) + 2}}

PatchFoundNothing ==
  /\ tool = "patch" /\ pc = "exit"
  /\ IF args.norm_ws THEN ~NormOccurs(Content0, args.a1)
                     ELSE ~Occurs(Content0, args.a1)

\* C10 as claimed: with the old text absent, a line at least 50% similar
\* (2 * matched >= longer length) gets a suggestion printed, and no suggestion
\* is printed when no candidate window scores above 0.5
C10_AtLeastHalf ==
  PatchFoundNothing =>
    LET t == normalize_ws(args.a1)
    IN /\ (\E i \in 1..Len(Lines0) : HalfSimilar(t, normalize_ws(Lines0[i])))
            => diag # <<>>
       /\ (\A w \in Candidates(Content0, args.a1) : ~MoreThanHalfSimilar(t, w))
            => diag = <<>>

\* C10 amended: with the old text absent, a line more than 50% similar
\* (2 * matched > longer length) gets a suggestion printed, and no suggestion
\* is printed when no candidate window scores above 0.5
C10_MoreThanHalf ==
  PatchFoundNothing =>
    LET t == normalize_ws(args.a1)
    IN /\ (\E i \in 1..Len(Lines0) : MoreThanHalfSimilar(t, normalize_ws(Lines0[i])))
            => diag # <<>>
       /\ (\A w \in Candidates(Content0, args.a1) : ~MoreThanHalfSimilar(t, w))
            => diag = <<>>

\* C10 witness: no match, and a line more than half similar was suggested
C10_Suggested ==
  /\ PatchFoundNothing /\ diag # <<>> /\ status = 1
  /\ \E i \in 1..Len(Lines0) :
       MoreThanHalfSimilar(normalize_ws(args.a1), normalize_ws(Lines0[i]))

\* whether some line contains pat, and the 0-based index of the first that does
SomeLineHas(L, pat) == \E i \in 1..Len(L) : Occurs(L[i], pat)
FirstIdx(L, pat) ==
  CHOOSE i \in 0..(Len(L) - 1) :
    Occurs(L[i + 1], pat) /\ \A r \in 0..(i - 1) : ~Occurs(L[r + 1], pat)

\* the insertion index the flags ask for (at most one flag given)
AskedIndex(L) ==
  IF args.after_line # <<>> THEN args.after_line[1]
  ELSE IF args.after_match # <<>> THEN FirstIdx(L, args.after_match[1]) + 1
  ELSE IF args.before_match # <<>> THEN FirstIdx(L, args.before_match[1])
  ELSE Len(L)

\* whether the flags name a position of the file
Accepted(L) ==
  IF args.after_line # <<>> THEN 0 <= args.after_line[1] /\ args.after_line[1] <= Len(L)
  ELSE IF args.after_match # <<>> THEN SomeLineHas(L, args.after_match[1])
  ELSE IF args.before_match # <<>> THEN SomeLineHas(L, args.before_match[1])
  ELSE TRUE

\* the text with a newline added when it does not end with one
Block(text) == IF endswith(text, NL) THEN text ELSE text \o <<NL>>

\* the newline given to the line before index k when it lacks one
Mend(L, k) == IF k > 0 /\ ~endswith(L[k], NL) THEN <<NL>> ELSE <<>>

\* C5: insert accepts --after-line N exactly when 0 <= N <= n and a match flag
\* exactly when some line contains the substring; the index k is N, idx + 1,
\* idx (idx the first line containing the substring) or n, always within 0..n;
\* the written file is L[0..k), a newline if L[k-1] lacked one, the block's
\* lines, then L[k..n), and the reported count is the number of block lines
C5_InsertAtIndex ==
  (tool = "insert" /\ pc = "exit") =>
    LET L == Lines0
        n == Len(L)
    IN /\ status = 0 <=> Accepted(L)
       /\ status = 0 =>
            LET k == AskedIndex(L)
            IN /\ k \in 0..n
               /\ fs[Target] = Join(SubSeq(L, 1, k)) \o Mend(L, k) \o Block(args.a1)
                                \o Join(SubSeq(L, k + 1, n))
               /\ count = Len(splitlines(Block(args.a1)))

\* C5 witness: inserted after the first match, which was the last line and had
\* no newline
C5_AfterUnterminatedMatch ==
  /\ tool = "insert" /\ pc = "exit" /\ status = 0
  /\ fs0[Target] = <<"b", NL, "a">> /\ args.after_match = <<<<"a">>>>
  /\ args.a1 = <<"X">>
  /\ fs[Target] = <<"b", NL, "a", NL, "X", NL>>

AXbc == <<"a", NL, "X", NL, "b", NL, "c", NL>>
AbXc == <<"a", NL, "b", NL, "X", NL, "c", NL>>

OnExample == fs0[Target] = ExampleLines /\ args.a1 = <<"X">>

\* C6 as claimed: on the lines a, b, c inserting X with --after-match "b"
\* gives a, X, b, c like --after-line 1, and --after-match P always writes what
\* --after-line i writes, i the 0-based index of the first line containing P
C6_AfterMatchLikeAfterLineIdx ==
  (tool = "insert" /\ pc = "exit" /\ status = 0 /\ args.after_match # <<>>) =>
    /\ OnExample /\ args.after_match = <<<<"b">>>> => fs[Target] = AXbc
    /\ fs[Target] = InsertContent(Content0, FirstIdx(Lines0, args.after_match[1]),
                                  args.a1)

\* C6 amended: on the lines a, b, c inserting X with --after-line 1 or
\* --before-match "b" gives a, X, b, c, and with --after-match "b" gives
\* a, b, X, c like --after-line 2; --after-match P always writes what
\* --after-line i + 1 writes and --before-match P what --after-line i writes
C6_AfterMatchLikeAfterLineNext ==
  (tool = "insert" /\ pc = "exit" /\ status = 0) =>
    /\ OnExample /\ args.after_line = <<1>> => fs[Target] = AXbc
    /\ OnExample /\ args.before_match = <<<<"b">>>> => fs[Target] = AXbc
    /\ OnExample /\ args.after_match = <<<<"b">>>> => fs[Target] = AbXc
    /\ OnExample /\ args.after_line = <<2>> => fs[Target] = AbXc
    /\ args.after_match # <<>> =>
         fs[Target] = InsertContent(Content0,
                                    FirstIdx(Lines0, args.after_match[1]) + 1, args.a1)
    /\ args.before_match # <<>> =>
         fs[Target] = InsertContent(Content0,
                                    FirstIdx(Lines0, args.before_match[1]), args.a1)

\* C6 witness: X inserted into a, b, c with --after-match "b"
C6_ExampleAfterMatch ==
  /\ tool = "insert" /\ pc = "exit" /\ status = 0
  /\ OnExample /\ args.after_match = <<<<"b">>>> /\ fs[Target] = AbXc

\* where the inserted block starts in the written file, and the block itself
BlockStart == Len(Join(SubSeq(Lines0, 1, AskedIndex(Lines0))))
              + Len(Mend(Lines0, AskedIndex(Lines0)))
BlockEnd == Len(fs[Target])
            - Len(Join(SubSeq(Lines0, AskedIndex(Lines0) + 1, Len(Lines0))))
Inserted == Slice(fs[Target], BlockStart, BlockEnd)

\* C7 as claimed: whatever the text, the inserted block ends with exactly one
\* newline, and it starts on a line of its own
C7_ExactlyOneNewline ==
  (tool = "insert" /\ pc = "exit" /\ status = 0) =>
    /\ endswith(Inserted, NL)
    /\ ~endswith(Slice(Inserted, 0, Len(Inserted) - 1), NL)
    /\ BlockStart > 0 => fs[Target][BlockStart] = NL

\* C7 amended: the inserted block is the text followed by one newline when the
\* text does not end with a newline, and the text itself, with all its trailing
\* newlines, when it does; so it ends with at least one newline, and it starts
\* on a line of its own
C7_AtLeastOneNewline ==
  (tool = "insert" /\ pc = "exit" /\ status = 0) =>
    /\ Inserted = IF endswith(args.a1, NL) THEN args.a1 ELSE args.a1 \o <<NL>>
    /\ endswith(Inserted, NL)
    /\ BlockStart > 0 => fs[Target][BlockStart] = NL

\* C7 witness: a text ending in two newlines went in after a line without newline
C7_TwoNewlinesKept ==
  /\ tool = "insert" /\ pc = "exit" /\ status = 0
  /\ args.a1 = <<"X", NL, NL>> /\ fs0[Target] = <<"a">>
  /\ fs[Target] = <<"a", NL, "X", NL, NL>>

\* C9: numbered read of any regular file, empty or without final newline
\* included, exits 0 and prints one row per line, in order: the line number
\* right-aligned in 6 columns, " | ", the line; plus a newline when the last
\* line has none
C9_NumberedRows ==
  (tool = "read" /\ ~args.raw /\ pc = "exit") =>
    LET L == FileLines(Content0)
        Row(i) == FormatLineNo(i) \o <<SP, "|", SP>> \o L[i]
    IN /\ status = 0
       /\ out = Join([i \in 1..Len(L) |-> Row(i)])
                 \o (IF Content0 # <<>> /\ ~endswith(Content0, NL) THEN <<NL>> ELSE <<>>)

====
